---- MODULE Spec2Model ----
(***************************************************************************)
(* A model of dummy-redis: the RESP frame model and its codec              *)
(* (src/src/resp), the command layer (src/src/cmd), the connection handler *)
(* (src/src/network.rs) and the Backend store the commands run against.    *)
(*                                                                         *)
(* Bytes are one-character strings; CR and LF are the two-letter atoms     *)
(* "CR" and "LF".  A frame is a record whose field t names the variant of  *)
(* RespFrame and whose second field carries the payload.                   *)
(***************************************************************************)
EXTENDS Integers, Sequences, FiniteSets, TLC

VARIABLES
    strings,    \* Backend: the flat map, key -> frame
    hashes,     \* Backend: the nested map, key -> (field -> frame)
    lastReq,    \* the frame handed to handle_request most recently
    lastCmd,    \* the Command it converted to (or the hard error)
    resp,       \* the frame handle_request returned for it
    setLog,     \* history: key -> value of the latest well-formed set request
    hsetLog,    \* history: key -> (field -> value of the latest hset request)
    overwrote,  \* history: the latest set/hset request hit a key/field written before
    wire,       \* codec run: the bytes the peer sends in all
    src,        \* codec run: the frame wire starts with (NoFrame for raw bytes)
    trail,      \* codec run: the bytes of wire after the encoding of src
    fed,        \* codec run: how many bytes of wire were appended to buf
    buf,        \* codec run: the decode buffer (BytesMut)
    calls,      \* codec run: the decode calls so far, each with its outcome
    conn,       \* connection handler state, one record per connection
    task,       \* concurrent commands: each task's command and how far it is
    order,      \* concurrent commands: the tasks in the order of their Backend calls
    ins         \* encoder run: the Map entries still to insert into src, and those inserted

vars == <<strings, hashes, lastReq, lastCmd, resp, setLog, hsetLog, overwrote,
          wire, src, trail, fed, buf, calls, conn, task, order, ins>>

backendVars == <<strings, hashes>>
cmdVars == <<lastReq, lastCmd, resp, setLog, hsetLog, overwrote>>
codecVars == <<wire, src, trail, fed, buf, calls>>
parVars == <<task, order>>
encVars == <<ins>>

----------------------------------------------------------------------------
(* Bytes *)

CR == "CR"
LF == "LF"
CRLF == <<CR, LF>>
CRLF_LEN == Len(CRLF)

\* A byte that is not valid UTF-8 on its own, and the three bytes of U+FFFD.
BadByte == "xFF"
Replacement == <<"xEF", "xBF", "xBD">>

Digits == <<"0", "1", "2", "3", "4", "5", "6", "7", "8", "9">>
IsDigit(b) == \E i \in 1..10 : Digits[i] = b
DigitVal(b) == (CHOOSE i \in 1..10 : Digits[i] = b) - 1

\* Rust slice s[a..b] and s[a..], 0-based.
Slice(s, a, b) == SubSeq(s, a + 1, b)
Drop(s, n) == SubSeq(s, n + 1, Len(s))

\* String::from_utf8_lossy: every invalid byte becomes U+FFFD.
RECURSIVE Lossy(_)
Lossy(s) ==
    IF s = <<>> THEN <<>>
    ELSE (IF Head(s) = BadByte THEN Replacement ELSE <<Head(s)>>) \o Lossy(Tail(s))

IsUtf8(s) == \A i \in 1..Len(s) : s[i] # BadByte

----------------------------------------------------------------------------
(* Frame model: src/src/resp/mod.rs *)

SimpleString(s) == [t |-> "SimpleString", text |-> s]
SimpleError(s) == [t |-> "SimpleError", msg |-> s]
Integer(n) == [t |-> "Integer", int |-> n]
BulkString(s) == [t |-> "BulkString", bytes |-> s]
NullBulkString == [t |-> "NullBulkString"]
RespArray(fs) == [t |-> "Array", elems |-> fs]
RespNull == [t |-> "Null"]
RespNullArray == [t |-> "NullArray"]
Boolean(b) == [t |-> "Boolean", b |-> b]
Double(neg, mant, exp) == [t |-> "Double", neg |-> neg, mant |-> mant, exp |-> exp]
RespMap(m) == [t |-> "Map", entries |-> m]
RespSet(fs) == [t |-> "Set", members |-> fs]

\* No frame at all (the absent Option, the frame of a failed decode).
NoFrame == [t |-> "None"]

----------------------------------------------------------------------------
(* Encoder: src/src/resp/encode.rs *)

\* Display of an unsigned and of a signed integer (format!("{}", n)).
RECURSIVE FmtNat(_)
FmtNat(n) ==
    IF n < 10 THEN <<Digits[n + 1]>>
    ELSE FmtNat(n \div 10) \o <<Digits[(n % 10) + 1]>>

FmtI64(n) == IF n < 0 THEN <<"-">> \o FmtNat(-n) ELSE FmtNat(n)

\* The byte value of each byte the model uses (the order of String keys).
Code(b) ==
    CASE b = LF -> 10 [] b = CR -> 13
      [] b = "#" -> 35 [] b = "$" -> 36 [] b = "%" -> 37 [] b = "*" -> 42
      [] b = "+" -> 43 [] b = "," -> 44 [] b = "-" -> 45 [] b = "." -> 46
      [] b = ":" -> 58 [] b = "_" -> 95 [] b = "~" -> 126
      [] IsDigit(b) -> 48 + DigitVal(b)
      [] b = "A" -> 65 [] b = "E" -> 69 [] b = "G" -> 71 [] b = "H" -> 72
      [] b = "K" -> 75 [] b = "L" -> 76 [] b = "O" -> 79 [] b = "S" -> 83
      [] b = "T" -> 84
      [] b = "a" -> 97 [] b = "b" -> 98 [] b = "e" -> 101 [] b = "f" -> 102
      [] b = "g" -> 103 [] b = "h" -> 104 [] b = "k" -> 107 [] b = "l" -> 108
      [] b = "s" -> 115 [] b = "t" -> 116 [] b = "v" -> 118 [] b = "w" -> 119
      [] b = "x" -> 120
      [] b = "xBD" -> 189 [] b = "xBF" -> 191 [] b = "xEF" -> 239
      [] b = "xFF" -> 255

\* Ord for String: lexicographic on the bytes.
RECURSIVE StrLess(_, _)
StrLess(x, y) ==
    IF y = <<>> THEN FALSE
    ELSE IF x = <<>> THEN TRUE
    ELSE IF Head(x) = Head(y) THEN StrLess(Tail(x), Tail(y))
    ELSE Code(Head(x)) < Code(Head(y))

\* The keys in descending order.
RECURSIVE SortedKeysDescending(_)
SortedKeysDescending(S) ==
    IF S = {} THEN <<>>
    ELSE LET k == CHOOSE x \in S : \A y \in S \ {x} : StrLess(y, x)
         IN <<k>> \o SortedKeysDescending(S \ {k})

\* The keys of a BTreeMap in iteration order.
RECURSIVE SortedKeys(_)
SortedKeys(S) ==
    IF S = {} THEN <<>>
    ELSE LET k == CHOOSE x \in S : \A y \in S \ {x} : StrLess(x, y)
         IN <<k>> \o SortedKeys(S \ {k})

SimpleStringEncode(s) == <<"+">> \o s \o CRLF
SimpleErrorEncode(s) == <<"-">> \o s \o CRLF
I64Encode(n) == <<":">> \o (IF n > 0 THEN <<"+">> ELSE <<>>) \o FmtI64(n) \o CRLF
BulkStringEncode(s) == <<"$">> \o FmtNat(Len(s)) \o CRLF \o Lossy(s) \o CRLF
RespNullEncode == <<"_">> \o CRLF
RespNullArrayEncode == <<"_">> \o CRLF
NullBulkStringEncode == <<"$", "-", "1">> \o CRLF
BoolEncode(b) == <<"#", IF b THEN "t" ELSE "f">> \o CRLF

\* n times the digit 0.
Zeros(n) == [i \in 1..n |-> "0"]

\* The exponent of a double in scientific notation: mant is d1 d2 .. dk, the
\* value is d1.d2..dk times ten to the power exp + k - 1.
SciExp(d) == d.exp + Len(FmtNat(d.mant)) - 1

\* self.abs() > 1e8 || self.abs() < 1e-8
F64UsesExp(d) ==
    \/ SciExp(d) > 8
    \/ SciExp(d) = 8 /\ d.mant # 1
    \/ d.mant = 0
    \/ SciExp(d) < -8

\* format!("{:+e}", x): a sign always, one digit, the other digits after a
\* point, e, the exponent with a sign only when it is negative.
FmtLowerExpPlus(d) ==
    LET ds == FmtNat(d.mant)
    IN  <<IF d.neg THEN "-" ELSE "+">> \o <<Head(ds)>>
        \o (IF Len(ds) > 1 THEN <<".">> \o Tail(ds) ELSE <<>>)
        \o <<"e">> \o FmtI64(SciExp(d))

\* format!("{}", x): a '-' for a negative value, the digits in fixed notation.
FmtF64(d) ==
    LET ds == FmtNat(d.mant)
        k == Len(ds)
    IN  (IF d.neg THEN <<"-">> ELSE <<>>)
        \o (IF d.exp >= 0 THEN ds \o Zeros(d.exp)
            ELSE IF k > -d.exp
                 THEN SubSeq(ds, 1, k + d.exp) \o <<".">> \o SubSeq(ds, k + d.exp + 1, k)
            ELSE <<"0", ".">> \o Zeros(-d.exp - k) \o ds)

\* f64::encode
F64Encode(d) ==
    IF F64UsesExp(d) THEN <<",">> \o FmtLowerExpPlus(d) \o CRLF
    ELSE <<",">> \o (IF d.neg /\ d.mant # 0 THEN <<>> ELSE <<"+">>) \o FmtF64(d) \o CRLF

RECURSIVE RespFrameEncode(_)
RECURSIVE EncodeAll(_)
RECURSIVE EncodeEntries(_, _)

\* The concatenated encodings of a Vec of frames, in order.
EncodeAll(fs) ==
    IF fs = <<>> THEN <<>> ELSE RespFrameEncode(Head(fs)) \o EncodeAll(Tail(fs))

\* Each entry of a map: its key as a SimpleString, then its value.
EncodeEntries(m, ks) ==
    IF ks = <<>> THEN <<>>
    ELSE SimpleStringEncode(Head(ks)) \o RespFrameEncode(m[Head(ks)])
         \o EncodeEntries(m, Tail(ks))

RespArrayEncode(fs) == <<"*">> \o FmtNat(Len(fs)) \o CRLF \o EncodeAll(fs)
RespSetEncode(fs) == <<"~">> \o FmtNat(Len(fs)) \o CRLF \o EncodeAll(fs)
RespMapEncode(m) ==
    <<"%">> \o FmtNat(Cardinality(DOMAIN m)) \o CRLF
    \o EncodeEntries(m, SortedKeys(DOMAIN m))

\* enum_dispatch: the encoder of the variant.
RespFrameEncode(f) ==
    CASE f.t = "SimpleString" -> SimpleStringEncode(f.text)
      [] f.t = "SimpleError" -> SimpleErrorEncode(f.msg)
      [] f.t = "Integer" -> I64Encode(f.int)
      [] f.t = "BulkString" -> BulkStringEncode(f.bytes)
      [] f.t = "NullBulkString" -> NullBulkStringEncode
      [] f.t = "Array" -> RespArrayEncode(f.elems)
      [] f.t = "Null" -> RespNullEncode
      [] f.t = "NullArray" -> RespNullArrayEncode
      [] f.t = "Boolean" -> BoolEncode(f.b)
      [] f.t = "Double" -> F64Encode(f)
      [] f.t = "Map" -> RespMapEncode(f.entries)
      [] f.t = "Set" -> RespSetEncode(f.members)

----------------------------------------------------------------------------
(* Decoder: src/src/resp/decode.rs *)

\* What one decode call did: its outcome (Ok, Incomplete, one of the RespError
\* kinds, or Panic for an aborted call), the frame, and the buffer it leaves.
DRes(kind, frame, rest) == [kind |-> kind, frame |-> frame, rest |-> rest]

\* str::parse::<usize>: an optional '+', then one or more decimal digits.
RECURSIVE NatOf(_)
NatOf(s) == IF s = <<>> THEN 0 ELSE NatOf(SubSeq(s, 1, Len(s) - 1)) * 10 + DigitVal(s[Len(s)])

ParseUsize(s) ==
    LET d == IF s # <<>> /\ Head(s) = "+" THEN Tail(s) ELSE s
    IN  IF d # <<>> /\ \A i \in 1..Len(d) : IsDigit(d[i])
        THEN [ok |-> TRUE, val |-> NatOf(d)]
        ELSE [ok |-> FALSE, val |-> 0]

\* The number of leading decimal digits of s.
RECURSIVE DigitRun(_)
DigitRun(s) == IF s # <<>> /\ IsDigit(Head(s)) THEN 1 + DigitRun(Tail(s)) ELSE 0

\* A double as a sign, a decimal mantissa without trailing zeros, an exponent.
RECURSIVE Normalize(_, _, _)
Normalize(neg, mant, exp) ==
    IF mant = 0 THEN Double(neg, 0, 0)
    ELSE IF mant % 10 = 0 THEN Normalize(neg, mant \div 10, exp + 1)
    ELSE Double(neg, mant, exp)

\* str::parse::<f64> on decimal literals: [sign] digits [. digits] [e [sign] digits].
ParseF64(s) ==
    LET signed == s # <<>> /\ Head(s) \in {"+", "-"}
        neg == signed /\ Head(s) = "-"
        r0 == IF signed THEN Tail(s) ELSE s
        ni == DigitRun(r0)
        r1 == Drop(r0, ni)
        hasDot == r1 # <<>> /\ Head(r1) = "."
        r2 == IF hasDot THEN Tail(r1) ELSE r1
        nf == IF hasDot THEN DigitRun(r2) ELSE 0
        r3 == Drop(r2, nf)
        hasExp == r3 # <<>> /\ Head(r3) \in {"e", "E"}
        r4 == IF hasExp THEN Tail(r3) ELSE r3
        esigned == hasExp /\ r4 # <<>> /\ Head(r4) \in {"+", "-"}
        eneg == esigned /\ Head(r4) = "-"
        r5 == IF esigned THEN Tail(r4) ELSE r4
        ne == IF hasExp THEN DigitRun(r5) ELSE 0
        r6 == Drop(r5, ne)
        mant == NatOf(Slice(r0, 0, ni) \o Slice(r2, 0, nf))
        e10 == IF hasExp THEN NatOf(Slice(r5, 0, ne)) ELSE 0
        exp == (IF eneg THEN -e10 ELSE e10) - nf
    IN  IF ni + nf >= 1 /\ (hasExp => ne >= 1) /\ r6 = <<>>
        THEN [ok |-> TRUE, val |-> Normalize(neg, mant, exp)]
        ELSE [ok |-> FALSE, val |-> NoFrame]

\* find_crlf: the 0-based index of the nth CR LF; "None" when there is none;
\* "Panic" when the scan reads buf[i + 1] past the end (a CR as the last byte).
RECURSIVE FindCrlfFrom(_, _, _, _)
FindCrlfFrom(b, nth, i, cnt) ==
    IF i >= Len(b) THEN [kind |-> "None", idx |-> 0]
    ELSE IF b[i + 1] # CR THEN FindCrlfFrom(b, nth, i + 1, cnt)
    ELSE IF i + 1 >= Len(b) THEN [kind |-> "Panic", idx |-> i]
    ELSE IF b[i + 2] # LF THEN FindCrlfFrom(b, nth, i + 1, cnt)
    ELSE IF cnt + 1 = nth THEN [kind |-> "Some", idx |-> i]
    ELSE FindCrlfFrom(b, nth, i + 1, cnt + 1)

find_crlf(b, nth) == FindCrlfFrom(b, nth, 0, 0)

\* extra_simple_frame_data: the index of the first CR LF of a frame with this prefix.
extra_simple_frame_data(prefix, b) ==
    IF Len(b) < 3 THEN [kind |-> "Incomplete", idx |-> 0]
    ELSE IF b[1] # prefix THEN [kind |-> "InvalidFrame", idx |-> 0]
    ELSE LET c == find_crlf(b, 1)
         IN  CASE c.kind = "Some" -> [kind |-> "Ok", idx |-> c.idx]
               [] c.kind = "None" -> [kind |-> "Incomplete", idx |-> 0]
               [] c.kind = "Panic" -> [kind |-> "Panic", idx |-> 0]

\* calc_total_length: the header's CR LF index and the element count.
calc_total_length(b, prefix) ==
    LET e == extra_simple_frame_data(prefix, b)
    IN  IF e.kind # "Ok" THEN [kind |-> e.kind, idx |-> 0, n |-> 0]
        ELSE LET p == ParseUsize(Lossy(Slice(b, 1, e.idx)))
             IN  IF p.ok THEN [kind |-> "Ok", idx |-> e.idx, n |-> p.val]
                 ELSE [kind |-> "ParseIntError", idx |-> 0, n |-> 0]

\* SimpleString::decode: every byte of the buffer that is not '+', CR or LF;
\* the buffer itself is not touched.
SimpleStringDecode(b) ==
    DRes("Ok",
         SimpleString(Lossy(SelectSeq(b, LAMBDA x : x # "+" /\ x # CR /\ x # LF))),
         b)

\* RespNull::decode
RespNullDecode(b) ==
    IF b[1] = "_" /\ Len(b) = 3 THEN DRes("Ok", RespNull, b)
    ELSE DRes("InvalidFrameType", NoFrame, b)

\* bool::decode
BoolDecode(b) ==
    LET e == extra_simple_frame_data("#", b)
    IN  IF e.kind # "Ok" THEN DRes(e.kind, NoFrame, b)
        ELSE LET rest == Drop(b, e.idx + CRLF_LEN)
                 str == Lossy(Slice(b, 1, e.idx))
             IN  IF str = <<"t">> THEN DRes("Ok", Boolean(TRUE), rest)
                 ELSE IF str = <<"f">> THEN DRes("Ok", Boolean(FALSE), rest)
                 ELSE DRes("InvalidFrame", NoFrame, rest)

\* f64::decode
F64Decode(b) ==
    LET e == extra_simple_frame_data(",", b)
    IN  IF e.kind # "Ok" THEN DRes(e.kind, NoFrame, b)
        ELSE LET rest == Drop(b, e.idx + CRLF_LEN)
                 p == ParseF64(Lossy(Slice(b, 1, e.idx)))
             IN  IF p.ok THEN DRes("Ok", p.val, rest)
                 ELSE DRes("ParseFloatError", NoFrame, rest)

\* BulkString::decode: the bytes between the first and the second CR LF.
BulkStringDecode(b) ==
    LET c2 == find_crlf(b, 2)
    IN  CASE c2.kind = "Panic" -> DRes("Panic", NoFrame, b)
          [] c2.kind = "None" -> DRes("Incomplete", NoFrame, b)
          [] c2.kind = "Some" ->
                LET e == extra_simple_frame_data("$", b)
                IN  IF e.kind # "Ok" THEN DRes(e.kind, NoFrame, b)
                    ELSE DRes("Ok",
                              BulkString(Slice(b, e.idx + CRLF_LEN, c2.idx)),
                              Drop(b, c2.idx + CRLF_LEN))

RECURSIVE RespFrameDecode(_)
RECURSIVE DecodeElems(_, _, _)

\* The element loop of RespArray::decode and RespSet::decode: `?` returns the
\* first failure with the buffer as the calls so far left it.
DecodeElems(b, n, acc) ==
    IF n = 0 THEN DRes("Ok", acc, b)
    ELSE LET r == RespFrameDecode(b)
         IN  IF r.kind # "Ok" THEN DRes(r.kind, NoFrame, r.rest)
             ELSE DecodeElems(r.rest, n - 1, Append(acc, r.frame))

\* RespArray::decode: the header is advanced over before the elements are decoded.
RespArrayDecode(b) ==
    LET h == calc_total_length(b, "*")
    IN  IF h.kind # "Ok" THEN DRes(h.kind, NoFrame, b)
        ELSE LET r == DecodeElems(Drop(b, h.idx + CRLF_LEN), h.n, <<>>)
             IN  IF r.kind = "Ok" THEN DRes("Ok", RespArray(r.frame), r.rest) ELSE r

\* RespSet::decode
RespSetDecode(b) ==
    LET h == calc_total_length(b, "~")
    IN  IF h.kind # "Ok" THEN DRes(h.kind, NoFrame, b)
        ELSE LET r == DecodeElems(Drop(b, h.idx + CRLF_LEN), h.n, <<>>)
             IN  IF r.kind = "Ok" THEN DRes("Ok", RespSet(r.frame), r.rest) ELSE r

\* RespFrame::decode: dispatch on the first byte; every other first byte, and an
\* empty buffer, is Incomplete.
RespFrameDecode(b) ==
    IF b = <<>> THEN DRes("Incomplete", NoFrame, b)
    ELSE CASE b[1] = "+" -> SimpleStringDecode(b)
           [] b[1] = "_" -> RespNullDecode(b)
           [] b[1] = "#" -> BoolDecode(b)
           [] b[1] = "," -> F64Decode(b)
           [] b[1] = "$" -> BulkStringDecode(b)
           [] b[1] = "*" -> RespArrayDecode(b)
           [] b[1] = "~" -> RespSetDecode(b)
           [] OTHER -> DRes("Incomplete", NoFrame, b)

----------------------------------------------------------------------------
(* Backend: the store the commands run against *)

EmptyMap == [x \in {} |-> NoFrame]

\* Backend::new
BackendNew == [strings |-> EmptyMap, hashes |-> EmptyMap]

\* Backend::get, Backend::set on the flat map (NoFrame is the absent Option).
BackendGet(strs, key) == IF key \in DOMAIN strs THEN strs[key] ELSE NoFrame
BackendSet(strs, key, value) ==
    [x \in DOMAIN strs \cup {key} |-> IF x = key THEN value ELSE strs[x]]

\* Backend::hget, Backend::hset, Backend::hgetall on the nested map.
BackendHGet(hs, key, field) ==
    IF key \in DOMAIN hs /\ field \in DOMAIN hs[key] THEN hs[key][field] ELSE NoFrame
BackendHSet(hs, key, field, value) ==
    LET inner == IF key \in DOMAIN hs THEN hs[key] ELSE EmptyMap
        inner2 == [x \in DOMAIN inner \cup {field} |->
                      IF x = field THEN value ELSE inner[x]]
    IN  [x \in DOMAIN hs \cup {key} |-> IF x = key THEN inner2 ELSE hs[x]]
BackendHGetAll(hs, key) ==
    IF key \in DOMAIN hs THEN [some |-> TRUE, map |-> hs[key]]
    ELSE [some |-> FALSE, map |-> EmptyMap]

----------------------------------------------------------------------------
(* Command layer: src/src/cmd *)

GET == <<"g", "e", "t">>
SET == <<"s", "e", "t">>
HGET == <<"h", "g", "e", "t">>
HSET == <<"h", "s", "e", "t">>
HGETALL == <<"h", "g", "e", "t", "a", "l", "l">>

\* lazy_static RESP_OK
RESP_OK == SimpleString(<<"O", "K">>)

\* [u8]::to_ascii_lowercase, byte by byte.
LowerByte(b) ==
    CASE b = "A" -> "a" [] b = "E" -> "e" [] b = "G" -> "g" [] b = "H" -> "h"
      [] b = "K" -> "k" [] b = "L" -> "l" [] b = "O" -> "o" [] b = "S" -> "s"
      [] b = "T" -> "t" [] OTHER -> b
ToAsciiLowercase(s) == [i \in 1..Len(s) |-> LowerByte(s[i])]

\* The Command variants, and a conversion's Result.
CmdGet(key) == [c |-> "Get", key |-> key]
CmdSet(key, value) == [c |-> "Set", key |-> key, value |-> value]
CmdHGet(key, field) == [c |-> "HGet", key |-> key, field |-> field]
CmdHSet(key, field, value) ==
    [c |-> "HSet", key |-> key, field |-> field, value |-> value]
CmdHGetAll(key) == [c |-> "HGetAll", key |-> key]
Unrecongnized(reason) == [c |-> "Unrecongnized", reason |-> reason]
NoCmd == [c |-> "None"]

Ok(cmd) == [ok |-> TRUE, cmd |-> cmd, err |-> <<>>]
Err(msg) == [ok |-> FALSE, cmd |-> NoCmd, err |-> msg]

\* CommandError's Display (thiserror).
InvalidCommand(s) == <<"Invalid command: ">> \o s
InvalidArgument(s) == <<"Invalid argument: ">> \o s
FromUTF8Error == <<"Utf8 error: invalid utf-8 sequence">>

\* [&str]::join(" ")
RECURSIVE Join(_)
Join(names) ==
    IF names = <<>> THEN <<>>
    ELSE IF Len(names) = 1 THEN names[1]
    ELSE names[1] \o <<" ">> \o Join(Tail(names))

\* validate_command: the length, then each name token.
RECURSIVE ValidateNames(_, _, _)
ValidateNames(value, names, i) ==
    IF i > Len(names) THEN <<>>
    ELSE IF value[i].t # "BulkString"
         THEN InvalidCommand(<<"Command must start with a BulkString argument">>)
    ELSE IF ToAsciiLowercase(value[i].bytes) # names[i]
         THEN InvalidCommand(<<"Invalid command: expected ">> \o names[i]
                             \o <<", got ">> \o Lossy(value[i].bytes))
    ELSE ValidateNames(value, names, i + 1)

\* validate_command without its test of the length.
validate_commandAnyLength(value, names, n_args) ==
    ValidateNames(value, names, 1)

\* <<>> for Ok(()), the error's text otherwise.
validate_command(value, names, n_args) ==
    IF Len(value) # n_args + Len(names)
    THEN InvalidArgument(Join(names) \o <<" command must have exactly ">>
                         \o FmtNat(n_args) \o <<" arguments">>)
    ELSE ValidateNames(value, names, 1)

\* extract_args
extract_args(value, start) == Drop(value, start)

\* TryFrom<RespArray> for Get
GetTryFrom(value) ==
    LET v == validate_command(value, <<GET>>, 1)
        args == extract_args(value, 1)
    IN  IF v # <<>> THEN Err(v)
        ELSE IF Len(args) >= 1 /\ args[1].t = "BulkString"
             THEN IF IsUtf8(args[1].bytes) THEN Ok(CmdGet(args[1].bytes))
                  ELSE Err(FromUTF8Error)
        ELSE Err(InvalidArgument(<<"Invalid Key">>))

\* TryFrom<RespArray> for Set
SetTryFrom(value) ==
    LET v == validate_command(value, <<SET>>, 2)
        args == extract_args(value, 1)
    IN  IF v # <<>> THEN Err(v)
        ELSE IF Len(args) >= 2 /\ args[1].t = "BulkString"
             THEN IF IsUtf8(args[1].bytes) THEN Ok(CmdSet(args[1].bytes, args[2]))
                  ELSE Err(FromUTF8Error)
        ELSE Err(InvalidArgument(<<"Invalid Key or Value">>))

\* TryFrom<RespArray> for HGet
HGetTryFrom(value) ==
    LET v == validate_command(value, <<HGET>>, 2)
        args == extract_args(value, 1)
    IN  IF v # <<>> THEN Err(v)
        ELSE IF Len(args) >= 2 /\ args[1].t = "BulkString" /\ args[2].t = "BulkString"
             THEN IF IsUtf8(args[1].bytes) /\ IsUtf8(args[2].bytes)
                  THEN Ok(CmdHGet(args[1].bytes, args[2].bytes))
                  ELSE Err(FromUTF8Error)
        ELSE Err(InvalidArgument(<<"Invalid Arguments">>))

\* TryFrom<RespArray> for HSet
HSetTryFrom(value) ==
    LET v == validate_command(value, <<HSET>>, 3)
        args == extract_args(value, 1)
    IN  IF v # <<>> THEN Err(v)
        ELSE IF Len(args) >= 3 /\ args[1].t = "BulkString" /\ args[2].t = "BulkString"
             THEN IF IsUtf8(args[1].bytes) /\ IsUtf8(args[2].bytes)
                  THEN Ok(CmdHSet(args[1].bytes, args[2].bytes, args[3]))
                  ELSE Err(FromUTF8Error)
        ELSE Err(InvalidArgument(<<"Invalid Arguments">>))

\* TryFrom<RespArray> for HGetAll
HGetAllTryFrom(value) ==
    LET v == validate_command(value, <<HGETALL>>, 1)
        args == extract_args(value, 1)
    IN  IF v # <<>> THEN Err(v)
        ELSE IF Len(args) >= 1 /\ args[1].t = "BulkString"
             THEN IF IsUtf8(args[1].bytes) THEN Ok(CmdHGetAll(args[1].bytes))
                  ELSE Err(FromUTF8Error)
        ELSE Err(InvalidArgument(<<"Invalid Arguments">>))

\* "unknown command".to_string(), byte by byte.
UnknownCommand ==
    <<"u", "n", "k", "n", "o", "w", "n", " ", "c", "o", "m", "m", "a", "n", "d">>

\* A conversion that returns the error of a known command's conversion as it is.
CommandTryFromPropagates(v) ==
    IF v.t # "Array" THEN Err(InvalidCommand(<<"Not an array">>))
    ELSE IF v.elems = <<>> \/ v.elems[1].t # "BulkString"
         THEN Err(InvalidCommand(<<"Invalid command">>))
    ELSE LET cmd == v.elems[1].bytes
         IN  CASE cmd = GET -> GetTryFrom(v.elems)
               [] cmd = SET -> SetTryFrom(v.elems)
               [] cmd = HGET -> HGetTryFrom(v.elems)
               [] cmd = HSET -> HSetTryFrom(v.elems)
               [] cmd = HGETALL -> HGetAllTryFrom(v.elems)
               [] OTHER -> Ok(Unrecongnized(UnknownCommand))

\* A conversion that matches the command name in any letter case.
CommandTryFromAnyCase(v) ==
    IF v.t # "Array" THEN Err(InvalidCommand(<<"Not an array">>))
    ELSE IF v.elems = <<>> \/ v.elems[1].t # "BulkString"
         THEN Err(InvalidCommand(<<"Invalid command">>))
    ELSE LET cmd == ToAsciiLowercase(v.elems[1].bytes)
             res == CASE cmd = GET -> GetTryFrom(v.elems)
                      [] cmd = SET -> SetTryFrom(v.elems)
                      [] cmd = HGET -> HGetTryFrom(v.elems)
                      [] cmd = HSET -> HSetTryFrom(v.elems)
                      [] cmd = HGETALL -> HGetAllTryFrom(v.elems)
                      [] OTHER -> Ok(Unrecongnized(UnknownCommand))
         IN  IF res.ok THEN res ELSE Ok(Unrecongnized(res.err))

\* TryFrom<RespFrame> for Command: a hard error for a frame that is no Array or
\* whose first element is no BulkString; a failed conversion of a known command
\* becomes Unrecongnized.
CommandTryFrom(v) ==
    IF v.t # "Array" THEN Err(InvalidCommand(<<"Not an array">>))
    ELSE IF v.elems = <<>> \/ v.elems[1].t # "BulkString"
         THEN Err(InvalidCommand(<<"Invalid command">>))
    ELSE LET cmd == v.elems[1].bytes
             res == CASE cmd = GET -> GetTryFrom(v.elems)
                      [] cmd = SET -> SetTryFrom(v.elems)
                      [] cmd = HGET -> HGetTryFrom(v.elems)
                      [] cmd = HSET -> HSetTryFrom(v.elems)
                      [] cmd = HGETALL -> HGetAllTryFrom(v.elems)
                      [] OTHER -> Ok(Unrecongnized(UnknownCommand))
         IN  IF res.ok THEN res ELSE Ok(Unrecongnized(res.err))

\* What an execute call did: the frame it returns and the Backend it leaves.
Done(frame, strs, hs) == [frame |-> frame, strings |-> strs, hashes |-> hs]

\* CommandExecutor for Get
GetExecute(cmd, strs, hs) ==
    LET v == BackendGet(strs, cmd.key)
    IN  Done(IF v # NoFrame THEN v ELSE RespNull, strs, hs)

\* Set that keeps the value a key already has.
SetExecuteKeepFirst(cmd, strs, hs) ==
    Done(RESP_OK,
         IF cmd.key \in DOMAIN strs THEN strs ELSE BackendSet(strs, cmd.key, cmd.value),
         hs)

\* Set that answers an overwrite with the value it replaced.
SetExecuteReturnsOld(cmd, strs, hs) ==
    Done(IF cmd.key \in DOMAIN strs THEN strs[cmd.key] ELSE RESP_OK,
         BackendSet(strs, cmd.key, cmd.value), hs)

\* Set that leaves its key the only one in the map.
SetExecuteAlone(cmd, strs, hs) ==
    Done(RESP_OK, [x \in {cmd.key} |-> cmd.value], hs)

\* Set in a single namespace: the hash of the same name is dropped.
SetExecuteOneNamespace(cmd, strs, hs) ==
    Done(RESP_OK, BackendSet(strs, cmd.key, cmd.value),
         [x \in DOMAIN hs \ {cmd.key} |-> hs[x]])

\* CommandExecutor for Set
SetExecute(cmd, strs, hs) ==
    Done(RESP_OK, BackendSet(strs, cmd.key, cmd.value), hs)

\* HGet that creates the inner map of a key that has none.
HGetExecuteCreates(cmd, strs, hs) ==
    LET v == BackendHGet(hs, cmd.key, cmd.field)
    IN  Done(IF v # NoFrame THEN v ELSE RespNull, strs,
             [x \in DOMAIN hs \cup {cmd.key} |->
                 IF x \in DOMAIN hs THEN hs[x] ELSE EmptyMap])

\* CommandExecutor for HGet
HGetExecute(cmd, strs, hs) ==
    LET v == BackendHGet(hs, cmd.key, cmd.field)
    IN  Done(IF v # NoFrame THEN v ELSE RespNull, strs, hs)

\* HSet that replaces the whole inner map by the one field.
HSetExecuteReplace(cmd, strs, hs) ==
    Done(RESP_OK, strs,
         [x \in DOMAIN hs \cup {cmd.key} |->
             IF x = cmd.key THEN [y \in {cmd.field} |-> cmd.value] ELSE hs[x]])

\* CommandExecutor for HSet
HSetExecute(cmd, strs, hs) ==
    Done(RESP_OK, strs, BackendHSet(hs, cmd.key, cmd.field, cmd.value))

\* HGetAll that answers an absent key with an empty Map.
HGetAllExecuteEmptyMap(cmd, strs, hs) ==
    Done(RespMap(BackendHGetAll(hs, cmd.key).map), strs, hs)

\* CommandExecutor for HGetAll
HGetAllExecute(cmd, strs, hs) ==
    LET m == BackendHGetAll(hs, cmd.key)
    IN  Done(IF m.some THEN RespMap(m.map) ELSE RespNull, strs, hs)

\* The literal of the format string "Error unknown command: {:?}", byte by byte.
ErrorUnknownCommand ==
    <<"E", "r", "r", "o", "r", " ">> \o UnknownCommand \o <<":", " ">>

\* Unrecongnized that empties the Backend.
UnrecongnizedExecuteWipes(cmd, strs, hs) ==
    Done(SimpleError(ErrorUnknownCommand \o <<"\"">> \o cmd.reason \o <<"\"">>),
         EmptyMap, EmptyMap)

\* CommandExecutor for Unrecongnized: the reason in its Debug form, in quotes.
UnrecongnizedExecute(cmd, strs, hs) ==
    Done(SimpleError(ErrorUnknownCommand \o <<"\"">> \o cmd.reason \o <<"\"">>),
         strs, hs)

\* enum_dispatch: Command::execute
Execute(cmd, strs, hs) ==
    CASE cmd.c = "Get" -> GetExecute(cmd, strs, hs)
      [] cmd.c = "Set" -> SetExecute(cmd, strs, hs)
      [] cmd.c = "HGet" -> HGetExecute(cmd, strs, hs)
      [] cmd.c = "HSet" -> HSetExecute(cmd, strs, hs)
      [] cmd.c = "HGetAll" -> HGetAllExecute(cmd, strs, hs)
      [] cmd.c = "Unrecongnized" -> UnrecongnizedExecute(cmd, strs, hs)

\* handle_request that empties the Backend when the conversion fails.
handle_requestWipesOnError(frame, strs, hs) ==
    LET c == CommandTryFrom(frame)
    IN  IF c.ok THEN [ok |-> TRUE, cmd |-> c.cmd, done |-> Execute(c.cmd, strs, hs)]
        ELSE [ok |-> FALSE, cmd |-> NoCmd, done |-> Done(NoFrame, EmptyMap, EmptyMap)]

\* handle_request: the conversion's hard error is returned with `?`, and then
\* nothing is executed and there is no response.
handle_request(frame, strs, hs) ==
    LET c == CommandTryFrom(frame)
    IN  IF c.ok THEN [ok |-> TRUE, cmd |-> c.cmd, done |-> Execute(c.cmd, strs, hs)]
        ELSE [ok |-> FALSE, cmd |-> NoCmd, done |-> Done(NoFrame, strs, hs)]

----------------------------------------------------------------------------
(* Requests handled against one Backend *)

\* Bounds of the model.
NVals == 2
MaxElems == 2
MaxRaw == 3
MaxCalls == 2

Keys == {<<"a">>, <<"b">>}
Fields == {<<"e">>, <<"f">>}
ValueList == <<BulkString(<<"v">>), RespNull, Integer(1), BulkString(<<"w">>),
               Boolean(TRUE)>>
Vals == {ValueList[i] : i \in 1..NVals}

Req(name, args) == RespArray(<<BulkString(name)>> \o args)
GetReq(k) == Req(GET, <<BulkString(k)>>)
SetReq(k, v) == Req(SET, <<BulkString(k), v>>)
HGetReq(k, f) == Req(HGET, <<BulkString(k), BulkString(f)>>)
HSetReq(k, f, v) == Req(HSET, <<BulkString(k), BulkString(f), v>>)
HGetAllReq(k) == Req(HGETALL, <<BulkString(k)>>)

WellFormedReqs ==
    {GetReq(k) : k \in Keys} \cup {SetReq(k, v) : k \in Keys, v \in Vals}
    \cup {HGetReq(k, f) : k \in Keys, f \in Fields}
    \cup {HSetReq(k, f, v) : k \in Keys, f \in Fields, v \in Vals}
    \cup {HGetAllReq(k) : k \in Keys}

\* Frames that are no well-formed supported command.
OtherReqs ==
    { RespArray(<<>>),
      RespArray(<<Integer(1), BulkString(<<"a">>)>>),
      BulkString(GET),
      Req(<<"x">>, <<BulkString(<<"a">>)>>),
      Req(<<"G", "E", "T">>, <<BulkString(<<"a">>)>>),
      Req(SET, <<BulkString(<<"a">>)>>),
      Req(SET, <<BulkString(<<"a">>), ValueList[1], ValueList[1]>>),
      Req(GET, <<Integer(1)>>),
      Req(GET, <<BulkString(<<BadByte>>)>>),
      Req(HSET, <<BulkString(<<"a">>), Integer(1), ValueList[1]>>) }

RequestFrames == WellFormedReqs \cup OtherReqs

\* A request as the protocol reads it, from the frame alone.
SetReqs == {SetReq(k, v) : k \in Keys, v \in Vals}
HSetReqs == {HSetReq(k, f, v) : k \in Keys, f \in Fields, v \in Vals}
IsSetReq(f) == f \in SetReqs
IsHSetReq(f) == f \in HSetReqs

InitCodecIdle ==
    /\ wire = <<>> /\ src = NoFrame /\ trail = <<>> /\ fed = 0 /\ buf = <<>>
    /\ calls = <<>>

Init ==
    /\ strings = BackendNew.strings
    /\ hashes = BackendNew.hashes
    /\ lastReq = NoFrame /\ lastCmd = NoCmd /\ resp = NoFrame
    /\ setLog = EmptyMap /\ hsetLog = EmptyMap /\ overwrote = FALSE
    /\ InitCodecIdle
    /\ conn = <<>>
    /\ task = <<>> /\ order = <<>>
    /\ ins = <<>>

\* One request frame through handle_request, on the Backend as it stands.
HandleRequest(f) ==
    \E h \in {handle_request(f, strings, hashes)} :
        /\ lastReq' = f
        /\ lastCmd' = h.cmd
        /\ resp' = h.done.frame
        /\ strings' = h.done.strings
        /\ hashes' = h.done.hashes
        /\ setLog' = IF IsSetReq(f)
                     THEN BackendSet(setLog, f.elems[2].bytes, f.elems[3])
                     ELSE setLog
        /\ hsetLog' = IF IsHSetReq(f)
                      THEN BackendHSet(hsetLog, f.elems[2].bytes, f.elems[3].bytes,
                                       f.elems[4])
                      ELSE hsetLog
        /\ overwrote' =
              \/ IsSetReq(f) /\ f.elems[2].bytes \in DOMAIN setLog
              \/ IsHSetReq(f) /\ BackendHGet(hsetLog, f.elems[2].bytes,
                                             f.elems[3].bytes) # NoFrame
        /\ UNCHANGED <<codecVars, conn, parVars, encVars>>

Next == \E f \in RequestFrames : HandleRequest(f)

Spec == Init /\ [][Next]_vars

----------------------------------------------------------------------------
(* The codec on a growing buffer *)

\* Sequences of at most n members of E.
SeqsUpTo(E, n) == UNION {[1..m -> E] : m \in 0..n}

ElemFrames == {Boolean(TRUE), BulkString(<<"a">>), SimpleString(<<"O", "K">>)}

ScalarFrames ==
    { SimpleString(<<"O", "K">>), SimpleString(<<>>), SimpleError(<<"e">>),
      Integer(0), Integer(5), Integer(-12),
      BulkString(<<>>), BulkString(<<"a", "b">>), BulkString(<<"a", CR, LF, "b">>),
      BulkString(<<"a", BadByte>>),
      Boolean(TRUE), Boolean(FALSE), RespNull, RespNullArray, NullBulkString }

CompositeFrames ==
    {RespArray(fs) : fs \in SeqsUpTo(ElemFrames, MaxElems)}
    \cup {RespSet(fs) : fs \in SeqsUpTo(ElemFrames, MaxElems)}
    \cup { RespArray(<<RespArray(<<Boolean(TRUE)>>), Boolean(FALSE)>>),
           RespSet(<<RespArray(<<>>), Integer(5)>>),
           RespMap(EmptyMap),
           RespMap([k \in {<<"e">>} |-> BulkString(<<"v">>)]),
           RespMap([k \in {<<"f">>, <<"e">>} |->
                       IF k = <<"e">> THEN Boolean(TRUE) ELSE Integer(1)]) }

CodecFrames == ScalarFrames \cup CompositeFrames

\* What may follow a frame in the buffer.
Trailers == {<<>>, <<"#", "t", CR, LF>>, <<"x">>}

\* Arbitrary buffer contents.
RawBytes == {"x", "+", "_", "#", "$", "*", "t", "1", CR, LF}
RawBuffers == SeqsUpTo(RawBytes, MaxRaw)

InitCodec ==
    /\ strings = BackendNew.strings
    /\ hashes = BackendNew.hashes
    /\ lastReq = NoFrame /\ lastCmd = NoCmd /\ resp = NoFrame
    /\ setLog = EmptyMap /\ hsetLog = EmptyMap /\ overwrote = FALSE
    /\ conn = <<>>
    /\ task = <<>> /\ order = <<>>
    /\ ins = <<>>
    /\ fed = 0 /\ buf = <<>> /\ calls = <<>>
    /\ \/ /\ src \in CodecFrames
          /\ trail \in Trailers
          /\ wire = RespFrameEncode(src) \o trail
       \/ /\ src = NoFrame
          /\ trail = <<>>
          /\ wire \in RawBuffers

\* The task that owns the buffer is gone once a decode call panicked.
Panicked == calls # <<>> /\ calls[Len(calls)].kind = "Panic"

\* The next n bytes of the wire are appended to the buffer (extend_from_slice).
Feed(n) ==
    /\ ~Panicked
    /\ Len(calls) < MaxCalls
    /\ fed + n <= Len(wire)
    /\ buf' = buf \o SubSeq(wire, fed + 1, fed + n)
    /\ fed' = fed + n
    /\ UNCHANGED <<wire, src, trail, calls, backendVars, cmdVars, conn, parVars, encVars>>

\* One call of RespFrame::decode on the buffer.
Decode ==
    /\ ~Panicked
    /\ Len(calls) < MaxCalls
    /\ \E r \in {RespFrameDecode(buf)} :
        /\ buf' = r.rest
        /\ calls' = Append(calls, [kind |-> r.kind, frame |-> r.frame, at |-> fed,
                                   before |-> buf, after |-> r.rest])
    /\ UNCHANGED <<wire, src, trail, fed, backendVars, cmdVars, conn, parVars, encVars>>

NextCodec ==
    \/ \E n \in 1..Len(wire) : Feed(n)
    \/ Decode

SpecCodec == InitCodec /\ [][NextCodec]_vars

----------------------------------------------------------------------------
(* Connections: src/src/network.rs, src/src/main.rs *)

Conns == {1, 2}

E(f) == RespFrameEncode(f)
KeyA == <<"a">>
ValV == BulkString(<<"v">>)
ValW == BulkString(<<"w">>)

\* What a peer sends on its connection, as the chunks it arrives in.
GoodScripts ==
    { <<E(SetReq(KeyA, ValV)), E(GetReq(KeyA))>>,
      <<E(SetReq(KeyA, ValW)) \o E(GetReq(KeyA))>>,
      <<SubSeq(E(GetReq(KeyA)), 1, 4), Drop(E(GetReq(KeyA)), 4)>>,
      <<E(HSetReq(KeyA, <<"e">>, ValV)), E(HGetAllReq(KeyA))>> }

\* An unknown tag byte, a count that is no number, a boolean that is not t or f.
MalformedScripts ==
    { <<<<"x", CR, LF>>>>,
      <<<<"*", "x", CR, LF>>>>,
      <<<<"~", "x", CR, LF>>>>,
      <<<<"#", "x", CR, LF>>>>,
      <<E(GetReq(KeyA)), <<"x", CR, LF>>>> }

\* Arrays that are no well-formed supported command, each before a valid one.
BadCommandScripts ==
    { <<E(RespArray(<<>>)), E(GetReq(KeyA))>>,
      <<E(RespArray(<<Boolean(TRUE)>>)), E(GetReq(KeyA))>>,
      <<E(Req(<<"x">>, <<BulkString(KeyA)>>)), E(GetReq(KeyA))>>,
      <<E(Req(GET, <<Boolean(TRUE)>>)), E(GetReq(KeyA))>>,
      <<E(Req(SET, <<BulkString(KeyA)>>)), E(GetReq(KeyA))>> }

\* A known name with a wrong argument type or a wrong length, before a valid
\* command.
ShapeErrorScripts ==
    { <<E(Req(GET, <<Boolean(TRUE)>>)), E(GetReq(KeyA))>>,
      <<E(Req(SET, <<BulkString(KeyA)>>)), E(GetReq(KeyA))>>,
      <<E(Req(HSET, <<BulkString(KeyA), Boolean(TRUE), ValV>>)),
        E(HGetAllReq(KeyA))>> }

Scripts ==
    GoodScripts \cup MalformedScripts \cup BadCommandScripts \cup ShapeErrorScripts

\* Framed::new: an empty read buffer, nothing readable, the stream not at its end.
NewConn(script) ==
    [ script |-> script,      \* what the peer sends in all
      todo |-> script,        \* the chunks the peer has still to send
      net |-> <<>>,           \* bytes sent and not yet read by the handler
      peerClosed |-> FALSE,   \* the peer shut its side down
      rbuf |-> <<>>,          \* FramedRead's buffer
      readable |-> FALSE,     \* FramedRead's is_readable
      eof |-> FALSE,          \* FramedRead's eof
      status |-> "open",      \* open, closed_ok, closed_err, panicked
      out |-> <<>>,           \* the response frames sent, in order
      log |-> <<>> ]          \* the frames framed.next() gave, with what was done

InitConn ==
    /\ strings = BackendNew.strings
    /\ hashes = BackendNew.hashes
    /\ lastReq = NoFrame /\ lastCmd = NoCmd /\ resp = NoFrame
    /\ setLog = EmptyMap /\ hsetLog = EmptyMap /\ overwrote = FALSE
    /\ InitCodecIdle
    /\ conn \in {[c \in Conns |-> NewConn(sc[c])] : sc \in [Conns -> Scripts]}
    /\ task = <<>> /\ order = <<>>
    /\ ins = <<>>

\* The peer's next chunk goes onto the connection.
PeerSend(c) ==
    /\ conn[c].todo # <<>>
    /\ ~conn[c].peerClosed
    /\ conn' = [conn EXCEPT ![c].net = @ \o Head(conn[c].todo),
                            ![c].todo = Tail(@)]
    /\ UNCHANGED <<backendVars, cmdVars, codecVars, parVars, encVars>>

\* The peer shuts down its side after it sent everything.
PeerClose(c) ==
    /\ conn[c].todo = <<>>
    /\ ~conn[c].peerClosed
    /\ conn' = [conn EXCEPT ![c].peerClosed = TRUE]
    /\ UNCHANGED <<backendVars, cmdVars, codecVars, parVars, encVars>>

\* framed.next() with nothing readable: the read of the socket returns the bytes
\* that arrived, or 0 bytes at the end of the stream.
Read(c) ==
    /\ conn[c].status = "open"
    /\ ~conn[c].readable
    /\ \/ /\ conn[c].net # <<>>
          /\ conn' = [conn EXCEPT ![c].rbuf = @ \o conn[c].net,
                                  ![c].net = <<>>,
                                  ![c].eof = FALSE,
                                  ![c].readable = TRUE]
       \/ /\ conn[c].net = <<>>
          /\ conn[c].peerClosed
          /\ IF conn[c].eof
             THEN conn' = [conn EXCEPT ![c].status = "closed_ok"]
             ELSE conn' = [conn EXCEPT ![c].eof = TRUE, ![c].readable = TRUE]
    /\ UNCHANGED <<backendVars, cmdVars, codecVars, parVars, encVars>>

\* A send that puts the response before the ones already sent.
FramedSendFirst(out, frame) == <<frame>> \o out

\* framed.send: the response goes out after the ones already sent.
FramedSend(out, frame) == Append(out, frame)

\* One turn of stream_handler's loop on a readable buffer, given what
\* RespFrameCodec::decode returns for it (Incomplete is Ok(None)): for a frame
\* handle_request and framed.send.
Turn(c, decoded) ==
    /\ conn[c].status = "open"
    /\ conn[c].readable
    /\ \E d \in decoded :
        CASE d.kind = "Ok" ->
                \E h \in {handle_request(d.frame, strings, hashes)} :
                    /\ strings' = h.done.strings
                    /\ hashes' = h.done.hashes
                    /\ conn' = [conn EXCEPT
                          ![c].rbuf = d.rest,
                          ![c].status = IF h.ok THEN "open" ELSE "closed_err",
                          ![c].out = IF h.ok THEN FramedSend(@, h.done.frame) ELSE @,
                          ![c].log = Append(@, [req |-> d.frame,
                                                cmd |-> h.cmd,
                                                resp |-> h.done.frame,
                                                open |-> h.ok])]
          [] d.kind = "Incomplete" ->
                /\ UNCHANGED backendVars
                /\ conn' = [conn EXCEPT
                      ![c].rbuf = d.rest,
                      ![c].readable = FALSE,
                      ![c].status = IF conn[c].eof
                                    THEN (IF d.rest = <<>> THEN "closed_ok"
                                          ELSE "closed_err")
                                    ELSE "open"]
          [] d.kind = "Panic" ->
                /\ UNCHANGED backendVars
                /\ conn' = [conn EXCEPT ![c].status = "panicked"]
          [] OTHER ->
                /\ UNCHANGED backendVars
                /\ conn' = [conn EXCEPT ![c].rbuf = d.rest,
                                        ![c].status = "closed_err"]
    /\ UNCHANGED <<cmdVars, codecVars, parVars, encVars>>

\* The turn with the decoder run on the read buffer.
Process(c) == Turn(c, {RespFrameDecode(conn[c].rbuf)})

NextConn ==
    \E c \in Conns :
        \/ PeerSend(c)
        \/ PeerClose(c)
        \/ Read(c)
        \/ Process(c)

SpecConn == InitConn /\ [][NextConn]_vars

\* The bytes of a sequence of chunks.
RECURSIVE Flatten(_)
Flatten(chunks) ==
    IF chunks = <<>> THEN <<>> ELSE Head(chunks) \o Flatten(Tail(chunks))

\* Connections whose peers send request Arrays of BulkStrings only: the chunks
\* sent, and the requests they hold. The key of the last one has CR LF in it.
KeyCrLf == <<"a", CR, LF, "x">>
LiveCases ==
    { [chunks |-> <<E(SetReq(KeyA, ValV)), E(GetReq(KeyA))>>,
       reqs |-> <<SetReq(KeyA, ValV), GetReq(KeyA)>>],
      [chunks |-> <<E(SetReq(KeyA, ValW)) \o E(GetReq(KeyA))>>,
       reqs |-> <<SetReq(KeyA, ValW), GetReq(KeyA)>>],
      [chunks |-> <<SubSeq(E(GetReq(KeyA)), 1, 4), Drop(E(GetReq(KeyA)), 4)>>,
       reqs |-> <<GetReq(KeyA)>>],
      [chunks |-> <<E(GetReq(KeyCrLf)), E(GetReq(KeyA))>>,
       reqs |-> <<GetReq(KeyCrLf), GetReq(KeyA)>>] }
LiveScripts == {x.chunks : x \in LiveCases}

InitLive ==
    /\ strings = BackendNew.strings
    /\ hashes = BackendNew.hashes
    /\ lastReq = NoFrame /\ lastCmd = NoCmd /\ resp = NoFrame
    /\ setLog = EmptyMap /\ hsetLog = EmptyMap /\ overwrote = FALSE
    /\ InitCodecIdle
    /\ conn \in {[c \in Conns |-> NewConn(sc[c])] : sc \in [Conns -> LiveScripts]}
    /\ task = <<>> /\ order = <<>>
    /\ ins = <<>>

\* The decoder's result for every run of consecutive bytes of what a peer
\* sends, which are the contents the read buffer can have.
Pieces(w) ==
    UNION {{SubSeq(w, i, j) : j \in (i - 1)..Len(w)} : i \in 1..(Len(w) + 1)}
DecodeTable ==
    [b \in UNION {Pieces(Flatten(s)) : s \in LiveScripts} |-> RespFrameDecode(b)]

\* Process, with the decoder's result taken from the table.
ProcessLive(c) == Turn(c, {DecodeTable[conn[c].rbuf]})

\* The runtime polls a handler task whose socket has bytes or is at its end, and
\* a handler that holds a readable buffer goes on by itself; a peer may wait
\* for ever.
SpecLive ==
    /\ InitLive
    /\ [][NextConn]_vars
    /\ \A c \in Conns : WF_vars(Read(c)) /\ WF_vars(ProcessLive(c))

----------------------------------------------------------------------------
(* Conversion and execution of arbitrary request frames: src/src/cmd *)

\* The most elements after the first that a request Array has.
MaxArgs == 4

FOO == <<"f", "o", "o">>
BAR == <<"b", "a", "r">>

\* First elements: the five names, an unknown one, one in upper case, no name.
Heads ==
    {BulkString(n) : n \in {GET, SET, HGET, HSET, HGETALL, FOO, <<"G", "E", "T">>}}
    \cup {Integer(1)}

ArgFrames == {BulkString(KeyA), Integer(1)}

CmdFrames ==
    {RespArray(<<h>> \o as) : h \in Heads, as \in SeqsUpTo(ArgFrames, MaxArgs)}
    \cup { RespArray(<<>>), BulkString(GET), RESP_OK, RespNull,
           Req(FOO, <<BulkString(BAR)>>),
           Req(GET, <<BulkString(<<BadByte>>)>>),
           Req(SET, <<BulkString(<<BadByte>>), ValV>>),
           Req(HSET, <<BulkString(KeyA), BulkString(<<BadByte>>), ValV>>),
           Req(<<"S", "e", "t">>, <<BulkString(KeyA), ValV>>),
           Req(<<"H", "S", "E", "T">>, <<BulkString(KeyA), BulkString(<<"e">>), ValV>>),
           Req(<<"H", "G", "e", "t", "A", "l", "l">>, <<BulkString(KeyA)>>) }

NextCmd == \E f \in CmdFrames : HandleRequest(f)

SpecCmd == Init /\ [][NextCmd]_vars

----------------------------------------------------------------------------
(* Commands of several connections running at once on the one Backend *)

\* How many connection tasks execute a command at the same time.
NWorkers == 3
Workers == 1..NWorkers

KeyB == <<"b">>
KeyC == <<"c">>
FieldE == <<"e">>
FieldF == <<"f">>

\* The commands the tasks execute, one each.
ParCmds ==
    { CmdSet(KeyA, ValV), CmdSet(KeyA, ValW), CmdSet(KeyB, ValW), CmdSet(KeyC, ValV),
      CmdGet(KeyA),
      CmdHSet(KeyA, FieldE, ValV), CmdHSet(KeyA, FieldE, ValW),
      CmdHSet(KeyA, FieldF, ValW), CmdHSet(KeyB, FieldE, ValW),
      CmdHGetAll(KeyA) }

\* The absent Option of hgetall.
NoSnap == [some |-> FALSE, map |-> EmptyMap]

\* A task that has its command and has not called the Backend yet.
NewTask(cmd) ==
    [ cmd |-> cmd,
      pc |-> "ready",      \* ready, snapped (hgetall returned), done
      snap |-> NoSnap,     \* what hgetall returned to this task
      held |-> {},         \* history: what the key's hash held since hgetall was called
      resp |-> NoFrame ]   \* the frame execute returned

InitPar ==
    /\ strings = BackendNew.strings
    /\ hashes = BackendNew.hashes
    /\ lastReq = NoFrame /\ lastCmd = NoCmd /\ resp = NoFrame
    /\ setLog = EmptyMap /\ hsetLog = EmptyMap /\ overwrote = FALSE
    /\ InitCodecIdle
    /\ conn = <<>>
    /\ task \in [Workers -> {NewTask(c) : c \in ParCmds}]
    /\ order = <<>>
    /\ ins = <<>>

\* An iteration that takes the field e as it was when hgetall was called and
\* the other fields as they are when the response is built.
HGetAllViewTorn(snap, live) ==
    [ some |-> snap.some \/ live.some,
      map |-> [f \in (DOMAIN snap.map \cap {FieldE}) \cup (DOMAIN live.map \ {FieldE}) |->
                  IF f = FieldE THEN snap.map[f] ELSE live.map[f]] ]

\* What the iteration in HGetAll::execute goes over: the map hgetall returned.
HGetAllView(snap, live) == snap

\* The task's one call of the Backend.  get, set, hget and hset make the call
\* and return; hgetall returns the key's pairs and the response is built later.
Call(w) ==
    /\ task[w].pc = "ready"
    /\ order' = Append(order, w)
    /\ IF task[w].cmd.c = "HGetAll"
       THEN /\ UNCHANGED backendVars
            /\ \E m \in {BackendHGetAll(hashes, task[w].cmd.key)} :
                  task' = [task EXCEPT ![w].pc = "snapped", ![w].snap = m,
                                       ![w].held = {m}]
       ELSE \E d \in {Execute(task[w].cmd, strings, hashes)} :
            /\ strings' = d.strings
            /\ hashes' = d.hashes
            /\ task' = [v \in Workers |->
                  IF v = w THEN [task[v] EXCEPT !.pc = "done", !.resp = d.frame]
                  ELSE IF task[v].pc = "snapped"
                       THEN [task[v] EXCEPT !.held =
                               @ \cup {BackendHGetAll(d.hashes, task[v].cmd.key)}]
                  ELSE task[v]]
    /\ UNCHANGED <<cmdVars, codecVars, conn, encVars>>

\* HGetAll::execute builds its response from what hgetall returned.
Build(w) ==
    /\ task[w].pc = "snapped"
    /\ \E view \in {HGetAllView(task[w].snap,
                                 BackendHGetAll(hashes, task[w].cmd.key))} :
        \E own \in {IF view.some THEN [k \in {task[w].cmd.key} |-> view.map]
                     ELSE EmptyMap} :
            task' = [task EXCEPT
                        ![w].pc = "done",
                        ![w].resp = HGetAllExecute(task[w].cmd, strings, own).frame]
    /\ UNCHANGED <<backendVars, cmdVars, codecVars, conn, order, encVars>>

NextPar ==
    \E w \in Workers :
        \/ Call(w)
        \/ Build(w)

SpecPar == InitPar /\ [][NextPar]_vars

----------------------------------------------------------------------------
(* The encoder on frames of every kind: src/src/resp/encode.rs *)

\* Integers from -IntBound to IntBound, payloads of at most MaxBulk bytes,
\* decimal exponents from -MaxExp10 to MaxExp10, at most MaxIns insertions.
IntBound == 12
MaxBulk == 3
MaxExp10 == 12
MaxIns == 3

BulkBytes == {"a", CR, LF, BadByte}

EncDoubles ==
    {Normalize(neg, m, e) : neg \in BOOLEAN, m \in {0, 1, 12, 123},
                            e \in (-MaxExp10)..MaxExp10}

EncFrames ==
    {Integer(n) : n \in (-IntBound)..IntBound}
    \cup {BulkString(b) : b \in SeqsUpTo(BulkBytes, MaxBulk)}
    \cup EncDoubles
    \cup { SimpleString(<<"O", "K">>), SimpleError(<<"e">>), RespNull, RespNullArray,
           NullBulkString, Boolean(TRUE), Boolean(FALSE),
           RespArray(<<Integer(0), BulkString(<<"a">>)>>),
           RespSet(<<Boolean(TRUE)>>) }

\* The entries a Map is built from, in the order they are inserted.
InsEntries == [key : {FieldE, FieldF}, value : {ValV, Integer(1)}]
InsSeqs == SeqsUpTo(InsEntries, MaxIns) \ {<<>>}

\* RespMap::insert (BTreeMap::insert through DerefMut): the key's entry is set.
RespMapInsert(f, key, value) ==
    RespMap([x \in DOMAIN f.entries \cup {key} |->
                IF x = key THEN value ELSE f.entries[x]])

InitEnc ==
    /\ strings = BackendNew.strings
    /\ hashes = BackendNew.hashes
    /\ lastReq = NoFrame /\ lastCmd = NoCmd /\ resp = NoFrame
    /\ setLog = EmptyMap /\ hsetLog = EmptyMap /\ overwrote = FALSE
    /\ conn = <<>>
    /\ task = <<>> /\ order = <<>>
    /\ wire = <<>> /\ trail = <<>> /\ fed = 0 /\ buf = <<>> /\ calls = <<>>
    /\ \/ src \in EncFrames /\ ins = [todo |-> <<>>, done |-> <<>>]
       \/ src = RespMap(EmptyMap) /\ ins \in [todo : InsSeqs, done : {<<>>}]

\* ret.insert(key, value) for the next entry.
Insert ==
    /\ ins.todo # <<>>
    /\ src' = RespMapInsert(src, Head(ins.todo).key, Head(ins.todo).value)
    /\ ins' = [todo |-> Tail(ins.todo), done |-> Append(ins.done, Head(ins.todo))]
    /\ UNCHANGED <<wire, trail, fed, buf, calls, backendVars, cmdVars, conn, parVars>>

\* RespFrame::encode of the frame.
Encode ==
    /\ ins.todo = <<>>
    /\ wire = <<>>
    /\ wire' = RespFrameEncode(src)
    /\ UNCHANGED <<src, trail, fed, buf, calls, backendVars, cmdVars, conn, parVars,
                   encVars>>

NextEnc ==
    \/ Insert
    \/ Encode

SpecEnc == InitEnc /\ [][NextEnc]_vars

----------------------------------------------------------------------------
(* Properties of the command layer, under Spec *)

\* C1: a get request is answered with the value of the latest set request to
\* that key, whatever was set before or to other keys, and with Null when the
\* key was never set.
C1_GetReturnsLatestSet ==
    \A k \in Keys :
        lastReq = GetReq(k) =>
            resp = (IF k \in DOMAIN setLog THEN setLog[k] ELSE RespNull)

\* A get of a key answered with its value while the other key holds another one.
C1_Witness ==
    /\ lastReq = GetReq(<<"a">>)
    /\ DOMAIN setLog = Keys
    /\ setLog[<<"a">>] # setLog[<<"b">>]
    /\ resp = setLog[<<"a">>]

\* C2: an hgetall request is answered with a Map of exactly the (field, latest
\* value) pairs hset wrote to that key, and with Null, never an empty Map, for
\* a key no hset went to.
C2_HGetAllReturnsWrittenPairs ==
    \A k \in Keys :
        lastReq = HGetAllReq(k) =>
            resp = (IF k \in DOMAIN hsetLog THEN RespMap(hsetLog[k]) ELSE RespNull)

\* An hgetall answered with both fields of a key while the other key has no hash.
C2_Witness ==
    /\ lastReq = HGetAllReq(<<"a">>)
    /\ DOMAIN hsetLog = {<<"a">>}
    /\ resp.t = "Map"
    /\ DOMAIN resp.entries = Fields

\* C3: an hget request is answered with the value of the latest hset to that
\* (key, field), and with Null when the key has no hash or its hash lacks the
\* field; an hset to another field changes nothing in it.
C3_HGetReturnsLatestHSet ==
    \A k \in Keys, f \in Fields :
        lastReq = HGetReq(k, f) =>
            resp = (IF k \in DOMAIN hsetLog /\ f \in DOMAIN hsetLog[k]
                    THEN hsetLog[k][f] ELSE RespNull)

\* An hget of a field answered with its value after the other field of the same
\* key was overwritten.
C3_Witness ==
    /\ lastReq = HGetReq(<<"a">>, <<"e">>)
    /\ <<"a">> \in DOMAIN hsetLog
    /\ DOMAIN hsetLog[<<"a">>] = Fields
    /\ hsetLog[<<"a">>][<<"e">>] # hsetLog[<<"a">>][<<"f">>]
    /\ resp = hsetLog[<<"a">>][<<"e">>]

\* C4: every set and every hset request is answered with the SimpleString OK,
\* for a new key or field as for an overwritten one.
C4_SetAndHSetReturnOk ==
    (IsSetReq(lastReq) \/ IsHSetReq(lastReq)) => resp = RESP_OK

\* A set that overwrote a key, answered OK.
C4_Witness == IsSetReq(lastReq) /\ overwrote /\ resp = RESP_OK

\* What get, hget and hgetall would be answered on a Backend.
GetAnswer(k, strs, hs) == GetExecute(CmdGet(k), strs, hs).frame
HGetAnswer(k, f, strs, hs) == HGetExecute(CmdHGet(k, f), strs, hs).frame
HGetAllAnswer(k, strs, hs) == HGetAllExecute(CmdHGetAll(k), strs, hs).frame

\* No key that was set and no key that got a hash is gone.
KeysStay ==
    /\ DOMAIN setLog \subseteq DOMAIN strings
    /\ DOMAIN hsetLog \subseteq DOMAIN hashes

\* C27, as stated: once an hset on a key was executed, hgetall on the key is
\* answered with a Map and hget on every (key, field) ever written is answered
\* with a value that is not Null; no hash, field or string key is removed.
C27_WrittenPairsNeverNull ==
    /\ KeysStay
    /\ \A k \in DOMAIN hsetLog :
          /\ HGetAllAnswer(k, strings, hashes).t = "Map"
          /\ \A f \in DOMAIN hsetLog[k] : HGetAnswer(k, f, strings, hashes) # RespNull

\* C27, amended: once an hset on a key was executed, hgetall on the key is
\* answered with a Map that has every field ever written, and hget on every
\* (key, field) ever written is answered with the value written to it last,
\* which is Null only when Null is what was written; no hash, field or string
\* key is removed.
C27_WrittenPairsStay ==
    /\ KeysStay
    /\ \A k \in DOMAIN hsetLog :
          /\ HGetAllAnswer(k, strings, hashes).t = "Map"
          /\ DOMAIN hsetLog[k] \subseteq DOMAIN HGetAllAnswer(k, strings, hashes).entries
          /\ \A f \in DOMAIN hsetLog[k] :
                /\ f \in DOMAIN hashes[k]
                /\ HGetAnswer(k, f, strings, hashes) = hsetLog[k][f]

\* Both fields of a were written, then a string was set under the same name,
\* and a later hgetall is answered with both fields.
C27_Witness ==
    /\ lastReq = HGetAllReq(KeyA)
    /\ KeyA \in DOMAIN hsetLog /\ DOMAIN hsetLog[KeyA] = Fields
    /\ KeyA \in DOMAIN setLog
    /\ resp.t = "Map" /\ DOMAIN resp.entries = Fields

\* C28: a Set leaves what hget and hgetall are answered unchanged, for every key
\* and field, and an HSet leaves what get is answered unchanged, the key of the
\* same name included.
C28_NamespacesAreIndependent ==
    [][ /\ lastCmd'.c = "Set" =>
              \A k \in Keys :
                  /\ HGetAllAnswer(k, strings', hashes') = HGetAllAnswer(k, strings, hashes)
                  /\ \A f \in Fields :
                        HGetAnswer(k, f, strings', hashes') = HGetAnswer(k, f, strings, hashes)
        /\ lastCmd'.c = "HSet" =>
              \A k \in Keys : GetAnswer(k, strings', hashes') = GetAnswer(k, strings, hashes)
      ]_vars

\* A Set on a key whose name also has a hash, which is still there.
C28_Witness ==
    /\ lastCmd.c = "Set" /\ lastCmd.key = KeyA
    /\ KeyA \in DOMAIN hashes
    /\ hashes[KeyA] = hsetLog[KeyA]
    /\ DOMAIN hashes[KeyA] = Fields

\* C29: executing a Get, an HGet or an HGetAll, on a present or an absent key,
\* leaves the strings map and the hashes map as they were; an hget or hgetall
\* on a key without a hash creates none.
C29_ReadsChangeNothing ==
    [][lastCmd'.c \in {"Get", "HGet", "HGetAll"} =>
          (strings' = strings /\ hashes' = hashes)]_vars

\* An hget on a key that has no hash was answered Null and the key still has
\* no hash, while the other key has one.
C29_Witness ==
    /\ lastReq = HGetReq(<<"b">>, <<"e">>)
    /\ resp = RespNull
    /\ <<"b">> \notin DOMAIN hashes
    /\ KeyA \in DOMAIN hashes

----------------------------------------------------------------------------
(* Properties of the codec, under SpecCodec *)

\* The wire is the encoding of src and nothing else.
WholeFrame == src # NoFrame /\ trail = <<>>

\* C5: decode on a strict prefix of a frame's encoding returns Incomplete and
\* leaves the buffer as it was, and once the remaining bytes are appended a
\* second decode returns the frame and uses up the buffer.
C5_IncrementalDecode ==
    WholeFrame =>
        /\ (Len(calls) >= 1 /\ calls[1].at < Len(wire)) =>
              (calls[1].kind = "Incomplete" /\ calls[1].after = calls[1].before)
        /\ (Len(calls) = 2 /\ calls[1].at < Len(wire) /\ calls[2].at = Len(wire)) =>
              (calls[2].kind = "Ok" /\ calls[2].frame = src /\ calls[2].after = <<>>)

\* The variants RespFrame::decode dispatches to a decoder.
DecodedVariants == {"SimpleString", "Null", "Boolean", "Double", "BulkString",
                    "Array", "Set"}

\* C6: a successful decode of a buffer that holds a complete frame of a variant
\* the decoder accepts and further bytes leaves exactly the further bytes.
C6_DecodeConsumesOneFrame ==
    (src.t \in DecodedVariants /\ trail # <<>> /\ Len(calls) >= 1
     /\ calls[1].at = Len(wire) /\ calls[1].kind = "Ok")
        => calls[1].after = trail

\* The variants the round trip is claimed for, at every level of nesting.
RECURSIVE RoundTripFrame(_)
RoundTripFrame(f) ==
    CASE f.t \in {"SimpleString", "SimpleError", "Integer", "BulkString", "Boolean"} -> TRUE
      [] f.t = "Array" -> \A i \in 1..Len(f.elems) : RoundTripFrame(f.elems[i])
      [] f.t = "Set" -> \A i \in 1..Len(f.members) : RoundTripFrame(f.members[i])
      [] f.t = "Map" -> \A k \in DOMAIN f.entries : RoundTripFrame(f.entries[k])
      [] OTHER -> FALSE

\* C7: decoding the encoding of a frame of any variant but Double gives the frame.
C7_RoundTrip ==
    (WholeFrame /\ RoundTripFrame(src) /\ Len(calls) >= 1 /\ calls[1].at = Len(wire))
        => (calls[1].kind = "Ok" /\ calls[1].frame = src)

\* The tag bytes of the wire format, and the outcomes that are a malformed frame.
RecognizedTags == {"+", "-", ":", "$", "*", "_", "#", ",", "%", "~"}
MalformedKinds == {"InvalidFrame", "InvalidFrameType", "InvalidFrameLength",
                   "ParseIntError", "ParseFloatError"}

\* C8: decode on a non-empty buffer whose first byte is no tag returns a
\* malformed-frame error, not Incomplete.
C8_UnknownTagIsMalformed ==
    \A i \in 1..Len(calls) :
        (calls[i].before # <<>> /\ calls[i].before[1] \notin RecognizedTags)
            => calls[i].kind \in MalformedKinds

\* The bytes of a BulkString's header: '$', the decimal length, CR LF.
BulkHeaderLen(f) == 1 + Len(FmtNat(Len(f.bytes))) + 2

\* C23: decoding a BulkString whose payload is text returns exactly the declared
\* number of payload bytes, CR LF inside the payload included, and a buffer that
\* holds the header and fewer payload bytes than declared gives Incomplete.
C23_BulkStringByDeclaredLength ==
    (src.t = "BulkString" /\ IsUtf8(src.bytes) /\ Len(calls) >= 1
     /\ calls[1].kind # "Panic") =>
        /\ calls[1].kind = "Ok" =>
              (calls[1].frame.t = "BulkString" /\ calls[1].frame.bytes = src.bytes)
        /\ (calls[1].at >= BulkHeaderLen(src)
            /\ calls[1].at < BulkHeaderLen(src) + Len(src.bytes)) =>
              calls[1].kind = "Incomplete"

\* C30: whatever the buffer holds, decode returns a frame, Incomplete or an
\* error; no call ends in an out-of-bounds access.
C30_DecodeNeverPanics ==
    \A i \in 1..Len(calls) : calls[i].kind # "Panic"

----------------------------------------------------------------------------
(* Properties of the connection handler, under SpecConn *)

\* Everything the peer sends has reached the handler, the peer keeps its side
\* open, and the handler is gone or waits for more bytes.
Settled(c) ==
    /\ conn[c].todo = <<>> /\ conn[c].net = <<>> /\ ~conn[c].peerClosed
    /\ (conn[c].status # "open" \/ ~conn[c].readable)

\* C9: once a connection has handled bytes that end in a protocol-level
\* malformation (an unknown tag byte, a count that is no number, a boolean that
\* is not t or f), it is terminated with an error, and only the requests before
\* the malformation were answered.
C9_MalformationClosesConnection ==
    \A c \in Conns :
        (conn[c].script \in MalformedScripts /\ Settled(c)) =>
            /\ conn[c].status = "closed_err"
            /\ Len(conn[c].out) = Len(conn[c].script) - 1

\* A request of one of the five supported shapes.
IsBulkUtf8(x) == x.t = "BulkString" /\ IsUtf8(x.bytes)
WellFormedCommand(f) ==
    /\ f.t = "Array"
    /\ f.elems # <<>>
    /\ f.elems[1].t = "BulkString"
    /\ LET a == f.elems
           name == f.elems[1].bytes
       IN  \/ name = GET /\ Len(a) = 2 /\ IsBulkUtf8(a[2])
           \/ name = SET /\ Len(a) = 3 /\ IsBulkUtf8(a[2])
           \/ name = HGET /\ Len(a) = 3 /\ IsBulkUtf8(a[2]) /\ IsBulkUtf8(a[3])
           \/ name = HSET /\ Len(a) = 4 /\ IsBulkUtf8(a[2]) /\ IsBulkUtf8(a[3])
           \/ name = HGETALL /\ Len(a) = 2 /\ IsBulkUtf8(a[2])

\* C10: every Array frame received on a connection that is no well-formed
\* supported command is answered with a SimpleError, and the connection stays
\* open.
C10_BadArrayGetsSimpleError ==
    \A c \in Conns :
        \A i \in 1..Len(conn[c].log) :
            (conn[c].log[i].req.t = "Array" /\ ~WellFormedCommand(conn[c].log[i].req))
                => (conn[c].log[i].resp.t = "SimpleError" /\ conn[c].log[i].open)

\* A request that names a known command and has not its shape.
ShapeErrorRequest(f) ==
    /\ f.t = "Array" /\ f.elems # <<>> /\ f.elems[1].t = "BulkString"
    /\ f.elems[1].bytes \in {GET, SET, HGET, HSET, HGETALL}
    /\ ~WellFormedCommand(f)

\* What a well-formed get or hgetall request is to be answered with on a Backend.
ExpectedAnswer(f, strs, hs) ==
    LET key == f.elems[2].bytes
    IN  IF f.elems[1].bytes = GET
        THEN (IF key \in DOMAIN strs THEN strs[key] ELSE RespNull)
        ELSE (IF key \in DOMAIN hs THEN RespMap(hs[key]) ELSE RespNull)

\* The handler of c takes one more request off its buffer in this step.
Handles(c) == Len(conn'[c].log) = Len(conn[c].log) + 1

FramePlans ==
    { <<SetReq(KeyA, ValV), GetReq(KeyA)>>,
      <<SetReq(KeyA, ValW), GetReq(KeyA)>>,
      <<GetReq(KeyA)>>,
      <<HSetReq(KeyA, <<"e">>, ValV), HGetAllReq(KeyA)>>,
      <<RespArray(<<>>), GetReq(KeyA)>>,
      <<RespArray(<<Boolean(TRUE)>>), GetReq(KeyA)>>,
      <<Req(<<"x">>, <<BulkString(KeyA)>>), GetReq(KeyA)>>,
      <<Req(GET, <<Boolean(TRUE)>>), GetReq(KeyA)>>,
      <<Req(SET, <<BulkString(KeyA)>>), GetReq(KeyA)>>,
      <<Req(HSET, <<BulkString(KeyA), Boolean(TRUE), ValV>>), HGetAllReq(KeyA)>> }

FrameScripts == Scripts \ MalformedScripts

\* A malformed script holds the frames that stand before its malformation.
SentFrames(script) ==
    IF script \in FrameScripts
    THEN CHOOSE fs \in FramePlans :
            Flatten([i \in 1..Len(fs) |-> E(fs[i])]) = Flatten(script)
    ELSE IF script[1] = E(GetReq(KeyA)) THEN <<GetReq(KeyA)>>
    ELSE <<>>

\* C16: on each connection the responses sent are, in order, the results of the
\* requests the handler took, no request is taken before the response to the
\* one before it was sent, the k-th response is the result of the k-th request
\* frame the peer sent on the Backend as it stood, and the Backend changes only
\* in the step that answers a request.
C16_ResponsesInRequestOrder ==
    /\ [](\A c \in Conns :
            /\ Len(conn[c].out) <= Len(conn[c].log)
            /\ Len(conn[c].log) <= Len(conn[c].out) + 1
            /\ Len(conn[c].log) = Len(conn[c].out) + 1 => conn[c].status = "closed_err"
            /\ \A k \in 1..Len(conn[c].out) :
                  conn[c].out[k] = conn[c].log[k].resp /\ conn[c].log[k].open)
    /\ [][\A c \in Conns :
            /\ conn'[c].out # conn[c].out =>
                  LET k == Len(conn[c].out) + 1
                  IN  /\ k <= Len(SentFrames(conn[c].script))
                      /\ \E h \in {handle_request(SentFrames(conn[c].script)[k],
                                                   strings, hashes)} :
                            /\ h.ok
                            /\ conn'[c].out = Append(conn[c].out, h.done.frame)
                            /\ strings' = h.done.strings
                            /\ hashes' = h.done.hashes
            /\ (\A d \in Conns : conn'[d].out = conn[d].out) =>
                  (strings' = strings /\ hashes' = hashes)]_vars

\* A set and a get that arrived in one read were answered in this order.
C16_Witness ==
    \E c \in Conns :
        /\ conn[c].script = <<E(SetReq(KeyA, ValW)) \o E(GetReq(KeyA))>>
        /\ conn[c].out = <<RESP_OK, ValW>>

\* Scripts of whole request frames, one or more per chunk, each an Array that
\* starts with a BulkString.
ServedScripts ==
    {s \in FrameScripts :
        /\ Len(s) = 1 \/ Len(s) = Len(SentFrames(s))
        /\ \A i \in 1..Len(SentFrames(s)) :
              /\ SentFrames(s)[i].elems # <<>>
              /\ SentFrames(s)[i].elems[1].t = "BulkString"}

\* C17: the step in which the handler of one connection ends, be it by the end
\* of the stream, a decode error, a panic of the decoder or the hard error of a
\* conversion, leaves the Backend and every other connection as they were; a
\* key the Backend holds is never lost; and a connection that sent whole
\* requests has all of them answered and stays open, whatever became of the
\* other connection.
C17_TerminationIsLocal ==
    /\ [][\A c \in Conns :
            /\ (conn[c].status = "open" /\ conn'[c].status # "open") =>
                  /\ strings' = strings
                  /\ hashes' = hashes
                  /\ \A d \in Conns \ {c} : conn'[d] = conn[d]
            /\ DOMAIN strings \subseteq DOMAIN strings'
            /\ DOMAIN hashes \subseteq DOMAIN hashes']_vars
    /\ [](\A d \in Conns :
            (conn[d].script \in ServedScripts /\ Settled(d)) =>
                /\ conn[d].status = "open"
                /\ Len(conn[d].out) = Len(SentFrames(conn[d].script)))

\* One connection ended with the hard error of an empty Array while the Backend
\* held a value; the other one read the value and is still open.
C17_Witness ==
    \E c, d \in Conns :
        /\ c # d
        /\ conn[c].status = "closed_err"
        /\ conn[c].script = <<E(RespArray(<<>>)), E(GetReq(KeyA))>>
        /\ conn[d].script = <<E(SetReq(KeyA, ValV)), E(GetReq(KeyA))>>
        /\ conn[d].out = <<RESP_OK, ValV>>
        /\ conn[d].status = "open"
        /\ strings[KeyA] = ValV

\* The requests the peer of c sends in all, and how many of them it has sent
\* to the last byte.
PeerRequests(c) == (CHOOSE x \in LiveCases : x.chunks = conn[c].script).reqs
BytesSent(c) == Len(Flatten(conn[c].script)) - Len(Flatten(conn[c].todo))
Received(c, i) ==
    /\ i <= Len(PeerRequests(c))
    /\ BytesSent(c) >= Len(Flatten([k \in 1..i |-> E(PeerRequests(c)[k])]))
MaxRequests == 2

\* C31: every request Array of BulkStrings that a connection received to its
\* last byte is answered in the end unless the connection ends, and no more
\* responses are sent than requests were received.
C31_EveryRequestIsAnswered ==
    /\ [](\A c \in Conns : \A i \in 1..MaxRequests :
            Len(conn[c].out) >= i => Received(c, i))
    /\ \A c \in Conns : \A i \in 1..MaxRequests :
            Received(c, i) ~> (Len(conn[c].out) >= i \/ conn[c].status # "open")

----------------------------------------------------------------------------
(* Properties of concurrent commands, under SpecPar *)

IsDone(w) == task[w].pc = "done"
Writers(key) == {w \in Workers : task[w].cmd.c = "Set" /\ task[w].cmd.key = key}
HWriters(key) == {w \in Workers : task[w].cmd.c = "HSet" /\ task[w].cmd.key = key}

\* C18: when a task has completed a set on a key no other task sets, the key
\* holds exactly the value written, and likewise for an hset on a key no other
\* task hsets, whatever the other tasks did and in whatever order; and no key
\* is in a map that no completed task wrote there.
C18_DisjointWritesAllVisible ==
    /\ \A w \in Workers :
          IsDone(w) =>
            LET cmd == task[w].cmd
            IN  /\ (cmd.c = "Set" /\ Writers(cmd.key) = {w}) =>
                      (cmd.key \in DOMAIN strings /\ strings[cmd.key] = cmd.value)
                /\ (cmd.c = "HSet" /\ HWriters(cmd.key) = {w}) =>
                      ( /\ cmd.key \in DOMAIN hashes
                        /\ hashes[cmd.key] = [f \in {cmd.field} |-> cmd.value] )
    /\ DOMAIN strings =
          {task[w].cmd.key : w \in {v \in Workers : IsDone(v) /\ task[v].cmd.c = "Set"}}
    /\ DOMAIN hashes =
          {task[w].cmd.key : w \in {v \in Workers : IsDone(v) /\ task[v].cmd.c = "HSet"}}

\* Three sets on three keys have completed.
C18_Witness ==
    /\ \A w \in Workers : IsDone(w)
    /\ {task[w].cmd : w \in Workers} =
          {CmdSet(KeyA, ValV), CmdSet(KeyB, ValW), CmdSet(KeyC, ValV)}
    /\ DOMAIN hashes = {}

\* The place of a task's Backend call among the calls made.
Pos(w) == CHOOSE i \in 1..Len(order) : order[i] = w
Called(w) == \E i \in 1..Len(order) : order[i] = w
LastOf(S) == CHOOSE w \in S : \A v \in S : Pos(v) <= Pos(w)

\* C19: a get that is called after every set on its key has completed returns
\* the value of the set the store took last, which is one of the values written
\* and never Null; and once all sets on a key have completed the key holds that
\* value.
C19_ConcurrentSetsLastWins ==
    /\ \A g \in Workers :
          (IsDone(g) /\ task[g].cmd.c = "Get") =>
            LET S == Writers(task[g].cmd.key)
            IN  (S # {} /\ \A v \in S : Called(v) /\ Pos(v) < Pos(g)) =>
                    /\ task[g].resp = task[LastOf(S)].cmd.value
                    /\ task[g].resp \in {task[v].cmd.value : v \in S}
    /\ \A key \in {KeyA, KeyB, KeyC} :
          LET S == Writers(key)
          IN  (S # {} /\ \A v \in S : IsDone(v)) =>
                  GetExecute(CmdGet(key), strings, hashes).frame
                      = task[LastOf(S)].cmd.value

\* Two sets of different values on one key, then the get: the value of the
\* second set is returned.
C19_Witness ==
    /\ Len(order) = 3
    /\ task[order[1]].cmd = CmdSet(KeyA, ValW)
    /\ task[order[2]].cmd = CmdSet(KeyA, ValV)
    /\ task[order[3]].cmd = CmdGet(KeyA)
    /\ task[order[3]].resp = ValV

\* The frame HGetAll::execute makes of what a key's hash holds.
FrameOf(m) == IF m.some THEN RespMap(m.map) ELSE RespNull

\* C20: the response of a completed hgetall is the content of the key's hash at
\* one moment between the call of hgetall and the building of the response.
C20_HGetAllIsSnapshot ==
    \A w \in Workers :
        (IsDone(w) /\ task[w].cmd.c = "HGetAll") =>
            task[w].resp \in {FrameOf(m) : m \in task[w].held}

\* An hset changed the hash between the call of hgetall and the building of the
\* response, which is a Map and not what the hash holds now.
C20_Witness ==
    \E w \in Workers :
        /\ IsDone(w) /\ task[w].cmd.c = "HGetAll"
        /\ Cardinality(task[w].held) = 2
        /\ task[w].resp.t = "Map"
        /\ task[w].resp # FrameOf(BackendHGetAll(hashes, task[w].cmd.key))

----------------------------------------------------------------------------
(* Properties of conversion and execution, under SpecCmd *)

KnownNames == {GET, SET, HGET, HSET, HGETALL}

\* part occurs in text as a run of consecutive bytes.
Contains(text, part) ==
    \E i \in 0..(Len(text) - Len(part)) : SubSeq(text, i + 1, i + Len(part)) = part

\* The request is an Array that starts with a BulkString.
NamedRequest ==
    /\ lastReq.t = "Array"
    /\ lastReq.elems # <<>>
    /\ lastReq.elems[1].t = "BulkString"

\* C11: a request Array whose first BulkString is none of get, set, hget, hset,
\* hgetall is answered with a SimpleError whose text contains the command name
\* that was sent.
C11_UnknownCommandNamesTheCommand ==
    (NamedRequest /\ lastReq.elems[1].bytes \notin KnownNames) =>
        /\ resp.t = "SimpleError"
        /\ Contains(resp.msg, lastReq.elems[1].bytes)

\* The total length each command requires, and the command an Array of that
\* length with BulkString keys stands for.
Arity(name) ==
    CASE name = GET -> 2 [] name = SET -> 3 [] name = HGET -> 3
      [] name = HSET -> 4 [] name = HGETALL -> 2

KeyPositions(name) ==
    IF name \in {HGET, HSET} THEN {2, 3} ELSE {2}

TypedCommand(elems) ==
    CASE elems[1].bytes = GET -> CmdGet(elems[2].bytes)
      [] elems[1].bytes = SET -> CmdSet(elems[2].bytes, elems[3])
      [] elems[1].bytes = HGET -> CmdHGet(elems[2].bytes, elems[3].bytes)
      [] elems[1].bytes = HSET -> CmdHSet(elems[2].bytes, elems[3].bytes, elems[4])
      [] elems[1].bytes = HGETALL -> CmdHGetAll(elems[2].bytes)

KnownRequest == NamedRequest /\ lastReq.elems[1].bytes \in KnownNames

\* C12: a request Array that starts with a known name and whose length differs
\* from the one the name requires becomes Unrecongnized; one of exactly that
\* length whose key arguments are BulkStrings of valid UTF-8 becomes the typed
\* command with these arguments.
C12_ArityEnforced ==
    KnownRequest =>
        LET elems == lastReq.elems
            name == elems[1].bytes
        IN  /\ Len(elems) # Arity(name) => lastCmd.c = "Unrecongnized"
            /\ ( /\ Len(elems) = Arity(name)
                 /\ \A i \in KeyPositions(name) :
                       elems[i].t = "BulkString" /\ IsUtf8(elems[i].bytes) )
                    => lastCmd = TypedCommand(elems)

\* C12 as first stated: any BulkString key argument, of valid UTF-8 or not.
C12_ArityEnforcedAnyBulkString ==
    KnownRequest =>
        LET elems == lastReq.elems
            name == elems[1].bytes
        IN  /\ Len(elems) # Arity(name) => lastCmd.c = "Unrecongnized"
            /\ ( /\ Len(elems) = Arity(name)
                 /\ \A i \in KeyPositions(name) : elems[i].t = "BulkString" )
                    => lastCmd.c # "Unrecongnized"

\* A set of four elements was rejected after a set of three elements stored.
C12_Witness ==
    /\ lastReq = Req(SET, <<BulkString(KeyA), Integer(1), Integer(1)>>)
    /\ lastCmd.c = "Unrecongnized"
    /\ KeyA \in DOMAIN strings

\* C13: a request that became Unrecongnized is answered with a SimpleError and
\* leaves the strings map and the hashes map as they were; so does every request
\* that starts with set or hset and did not become a Set or an HSet.
C13_UnrecognizedLeavesBackend ==
    [][ /\ lastCmd'.c = "Unrecongnized" =>
              (resp'.t = "SimpleError" /\ strings' = strings /\ hashes' = hashes)
        /\ ( /\ lastReq'.t = "Array" /\ lastReq'.elems # <<>>
             /\ lastReq'.elems[1] \in {BulkString(SET), BulkString(HSET)}
             /\ lastCmd'.c \notin {"Set", "HSet"} )
              => (strings' = strings /\ hashes' = hashes) ]_vars

\* An hset whose field is no BulkString was rejected on a Backend that holds
\* a string and a hash.
C13_Witness ==
    /\ lastReq = Req(HSET, <<BulkString(KeyA), Integer(1), Integer(1)>>)
    /\ lastCmd.c = "Unrecongnized"
    /\ resp.t = "SimpleError"
    /\ KeyA \in DOMAIN strings
    /\ KeyA \in DOMAIN hashes

\* C14: the conversion of a request frame gives no Command at all exactly when
\* the frame is no Array, is the empty Array, or is an Array whose first element
\* is no BulkString; every Array that starts with a BulkString gives a Command.
C14_HardErrorExactlyForUnnamed ==
    lastReq # NoFrame =>
        /\ lastCmd = NoCmd <=> ~NamedRequest
        /\ lastCmd = NoCmd => resp = NoFrame

\* An Array that starts with an Integer gave no Command.
C14_Witness ==
    /\ lastReq = RespArray(<<Integer(1), BulkString(KeyA)>>)
    /\ lastCmd = NoCmd
    /\ KeyA \in DOMAIN strings

\* The request names a command in other than lower case letters.
OtherCaseRequest(f) ==
    /\ f.t = "Array" /\ f.elems # <<>> /\ f.elems[1].t = "BulkString"
    /\ f.elems[1].bytes \notin KnownNames
    /\ ToAsciiLowercase(f.elems[1].bytes) \in KnownNames

\* C26: a request whose command name is one of the five names in upper or mixed
\* case becomes Unrecongnized with the text of an unknown command, whatever its
\* arguments, and leaves the strings map and the hashes map as they were.
C26_NamesAreCaseSensitive ==
    /\ [](OtherCaseRequest(lastReq) => lastCmd = Unrecongnized(UnknownCommand))
    /\ [][OtherCaseRequest(lastReq') => (strings' = strings /\ hashes' = hashes)]_vars

\* Set with a key and a value was sent to a Backend that holds the key a, and
\* the strings map still has the value set before.
C26_Witness ==
    /\ lastReq = Req(<<"S", "e", "t">>, <<BulkString(KeyA), ValV>>)
    /\ lastCmd.c = "Unrecongnized"
    /\ KeyA \in DOMAIN strings
    /\ strings[KeyA] = Integer(1)

----------------------------------------------------------------------------
(* Properties of the encoder, under SpecEnc *)

Encoded == wire # <<>>
Abs(n) == IF n < 0 THEN -n ELSE n

\* C21: the encoding of an Integer is ':', then '+' for a value that is zero
\* or more and '-' for a value below zero, then the digits, then CR LF.
C21_IntegerCarriesSign ==
    (Encoded /\ src.t = "Integer") =>
        wire = <<":", IF src.int >= 0 THEN "+" ELSE "-">> \o FmtNat(Abs(src.int)) \o CRLF

\* C22: the encoding of a BulkString is '$', the decimal number of its bytes,
\* CR LF, the bytes themselves unchanged, CR LF.
C22_BulkStringKeepsBytes ==
    (Encoded /\ src.t = "BulkString") =>
        wire = <<"$">> \o FmtNat(Len(src.bytes)) \o CRLF \o src.bytes \o CRLF

\* The encoding of a Map over the fields e and f with the entries in ascending
\* key order: '%', the number of entries, CR LF, then for each key the key as a
\* SimpleString and the value.
EntryWire(m, k) ==
    IF k \in DOMAIN m THEN <<"+">> \o k \o CRLF \o RespFrameEncode(m[k]) ELSE <<>>
AscendingWire(m) ==
    <<"%">> \o FmtNat(Cardinality(DOMAIN m)) \o CRLF
    \o EntryWire(m, FieldE) \o EntryWire(m, FieldF)

\* C24: the encoding of a Map is fixed by its pairs, whatever the order they
\* were inserted in, and lists them in ascending key order.
C24_MapEncodingIsCanonical ==
    (Encoded /\ src.t = "Map") => wire = AscendingWire(src.entries)

\* A Map that got f before e and is encoded with e first.
C24_Witness ==
    /\ Encoded /\ src.t = "Map"
    /\ Len(ins.done) = 2
    /\ ins.done[1].key = FieldF /\ ins.done[2].key = FieldE
    /\ SubSeq(wire, 5, 6) = <<"+", "e">>

\* The encoding is in scientific notation: it has the exponent marker e.
Scientific(w) == \E i \in 1..Len(w) : w[i] = "e"

\* |x| >= 1e8, or x is not zero and |x| < 1e-8.
OutsideFixedRange(d) == d.mant # 0 /\ (SciExp(d) >= 8 \/ SciExp(d) < -8)

\* C25: the encoding of a Double is in scientific notation with a lowercase e
\* exactly when |x| >= 1e8 or x is not zero and |x| < 1e-8, and in fixed
\* notation otherwise, zero included; the sign is '+' for a value that is zero
\* or more and '-' for a value below zero.
C25_DoubleNotationAndSign ==
    (Encoded /\ src.t = "Double") =>
        /\ Scientific(wire) <=> OutsideFixedRange(src)
        /\ src.mant # 0 => wire[2] = (IF src.neg THEN "-" ELSE "+")
        /\ (src.mant = 0 /\ ~src.neg) => wire[2] = "+"

====
